---- MODULE Spec2Model ----
(***************************************************************************)
(* Model of the query router (rag.py, RAGPipeline) and the SQL-synthesis   *)
(* agent (sql_agent.py, SQLAgent) of TheNuPie_Chatbot.                     *)
(*                                                                         *)
(* Texts are sequences of one-character strings, so that Python's          *)
(* substring tests, lower(), strip(), rstrip() and the regular expressions *)
(* of _clean_sql are computed character by character.  The two fixed       *)
(* router messages, which no code ever searches, are kept as whole atoms.  *)
(***************************************************************************)
EXTENDS Integers, Sequences, FiniteSets, TLC

VARIABLES
    \* ---- SQLAgent object state (sql_agent.py:9-29) ----
    attached_dbs,   \* self.attached_dbs: sequence of aliases
    schema_map,     \* self.schema_map: text
    databases,      \* the storage layer: alias -> "broken" or sequence of tables
    init_pc,        \* position of SQLAgent.__init__
    \* ---- requests: one RAGPipeline.ask activation per request id ----
    reqs,           \* the request ids of this run
    rq,             \* rq[r]: the locals of RAGPipeline.ask / SQLAgent.ask of request r
    calls,          \* calls[r]: the collaborator calls request r has made, in order
    \* ---- the sanitizer applied as a pure function ----
    raw,            \* a raw model output
    clean1,         \* _clean_sql(raw)
    clean2,         \* _clean_sql(_clean_sql(raw))
    clean_pc

vars == <<attached_dbs, schema_map, databases, init_pc, reqs, rq, calls,
          raw, clean1, clean2, clean_pc>>

-----------------------------------------------------------------------------
(* Python str primitives, character by character *)

UpperChars == <<"A","B","C","D","E","F","G","H","I","J","K","L","M",
                "N","O","P","Q","R","S","T","U","V","W","X","Y","Z">>
LowerChars == <<"a","b","c","d","e","f","g","h","i","j","k","l","m",
                "n","o","p","q","r","s","t","u","v","w","x","y","z">>
DigitChars == <<"0","1","2","3","4","5","6","7","8","9">>

Range(s) == { s[i] : i \in DOMAIN s }

\* str.lower() on one character
LowerChar(c) ==
    IF \E i \in DOMAIN UpperChars : UpperChars[i] = c
    THEN LowerChars[CHOOSE i \in DOMAIN UpperChars : UpperChars[i] = c]
    ELSE c

\* str.lower()
Lower(s) == [i \in DOMAIN s |-> LowerChar(s[i])]

\* s[i:] of Python (1-based here): the suffix that starts at position i
From(s, i) == IF i > Len(s) THEN <<>> ELSE SubSeq(s, i, Len(s))

\* s.startswith(p, i-1)
StartsAt(s, i, p) ==
    /\ i + Len(p) - 1 <= Len(s)
    /\ \A k \in 1..Len(p) : s[i + k - 1] = p[k]

\* the test (sub in s) of Python
Contains(s, sub) == \E i \in 1..(Len(s) + 1) : StartsAt(s, i, sub)

\* whitespace of str.strip()
IsSpace(c) == c \in {" ", "\n", "\t", "\r"}

\* \w of the re module (ASCII letters, digits, underscore)
IsWordChar(c) ==
    c \in Range(UpperChars) \cup Range(LowerChars) \cup Range(DigitChars) \cup {"_"}

RECURSIVE LStrip(_)
LStrip(s) == IF s # <<>> /\ IsSpace(Head(s)) THEN LStrip(Tail(s)) ELSE s

RECURSIVE RStripSpace(_)
RStripSpace(s) ==
    IF s # <<>> /\ IsSpace(s[Len(s)]) THEN RStripSpace(SubSeq(s, 1, Len(s) - 1)) ELSE s

\* str.strip()
Strip(s) == RStripSpace(LStrip(s))

\* str.rstrip(";")
RECURSIVE RStripSemi(_)
RStripSemi(s) ==
    IF s # <<>> /\ s[Len(s)] = ";" THEN RStripSemi(SubSeq(s, 1, Len(s) - 1)) ELSE s

\* The backtick character (the parser accepts no backtick inside a string
\* literal, so the character is written as this atom)
Backtick == "<backtick>"
DQuote   == "\""

\* str.replace(backtick, double quote)
ReplaceBackticks(s) == [i \in DOMAIN s |-> IF s[i] = Backtick THEN DQuote ELSE s[i]]

-----------------------------------------------------------------------------
(* SQLAgent._clean_sql, sql_agent.py:78-84 *)

Fence    == <<Backtick, Backtick, Backtick>>
FenceSql == <<Backtick, Backtick, Backtick, "s", "q", "l">>
KwSelect == <<"s","e","l","e","c","t">>
KwWith   == <<"w","i","t","h">>

\* re.sub of the pattern (fence "sql" | fence) by "", re.IGNORECASE: leftmost matches, the
\* first alternative tried first, the scan resumed after each match
RECURSIVE RemoveFences(_)
RemoveFences(s) ==
    IF s = <<>> THEN <<>>
    ELSE IF StartsAt(Lower(s), 1, FenceSql) THEN RemoveFences(From(s, 7))
    ELSE IF StartsAt(s, 1, Fence) THEN RemoveFences(From(s, 4))
    ELSE <<Head(s)>> \o RemoveFences(Tail(s))

\* \b before position i / after position j of s
BoundaryBefore(s, i) == i = 1 \/ ~IsWordChar(s[i - 1])
BoundaryAfter(s, j)  == j = Len(s) \/ ~IsWordChar(s[j + 1])

\* a match of \b(SELECT|WITH)\b (re.IGNORECASE) starts at position i
KeywordAt(s, i) ==
    \E kw \in {KwSelect, KwWith} :
        /\ StartsAt(Lower(s), i, kw)
        /\ BoundaryBefore(s, i)
        /\ BoundaryAfter(s, i + Len(kw) - 1)

\* re.search: the start of the leftmost match, 0 when there is none
FirstKeyword(s) ==
    IF \E i \in 1..Len(s) : KeywordAt(s, i)
    THEN CHOOSE i \in 1..Len(s) :
            KeywordAt(s, i) /\ \A j \in 1..(i - 1) : ~KeywordAt(s, j)
    ELSE 0

_clean_sql(sql_text) ==
    LET c1 == Strip(RemoveFences(sql_text))
        m  == FirstKeyword(c1)
        c2 == IF m > 0 THEN From(c1, m) ELSE c1
        c3 == ReplaceBackticks(c2)
    IN  RStripSemi(c3)

-----------------------------------------------------------------------------
(* RAGPipeline._is_sql_query, rag.py:56-68 *)

keywords ==
    << <<"t","o","t","a","l">>,
       <<"s","u","m">>,
       <<"a","v","e","r","a","g","e">>,
       <<"c","o","u","n","t">>,
       <<"m","a","x">>,
       <<"m","i","n">>,
       <<"c","a","l","c","u","l","a","t","e">>,
       <<"v","a","l","u","e">>,
       <<"l","i","s","t">>,
       <<"t","a","b","l","e">>,
       <<"s","h","o","w"," ","m","e">>,
       <<"h","o","w"," ","m","a","n","y">>,
       <<"d","i","s","t","r","i","b","u","t","i","o","n">>,
       <<"b","r","e","a","k","d","o","w","n">>,
       <<"p","e","r","c","e","n","t","a","g","e">>,
       <<"p","r","o","p","o","r","t","i","o","n">>,
       <<"r","a","t","i","o">>,
       <<"t","r","e","n","d">>,
       <<"c","o","m","p","a","r","e">>,
       <<"d","i","f","f","e","r","e","n","c","e">>,
       <<"h","i","g","h","e","s","t">>,
       <<"l","o","w","e","s","t">>,
       <<"r","a","n","k">>,
       <<"t","o","p">>,
       <<"b","o","t","t","o","m">>,
       <<"c","o","m","m","o","n">>,
       <<"p","o","p","u","l","a","r">> >>

\* the keyword test without lower(): capitals in the question defeat it
_is_sql_query_cased(query) ==
    \E i \in DOMAIN keywords : Contains(query, keywords[i])

_is_sql_query(query) ==
    \E i \in DOMAIN keywords : Contains(Lower(query), keywords[i])

-----------------------------------------------------------------------------
(* The storage layer as SQLAgent.ask uses it (sql_agent.py:120-125): one    *)
(* statement text is executed and yields rows or raises.                    *)

Min(a, b) == IF a <= b THEN a ELSE b

\* what separates the tokens of a statement: whitespace and the terminator
IsSep(c) == IsSpace(c) \/ c = ";"

\* the length of the leading run of non-separator characters of t
WordLen(t) ==
    IF \E i \in 1..Len(t) : IsSep(t[i])
    THEN (CHOOSE i \in 1..Len(t) :
            IsSep(t[i]) /\ \A j \in 1..(i - 1) : ~IsSep(t[j])) - 1
    ELSE Len(t)

\* the tokens of a statement text
RECURSIVE Tokens(_)
Tokens(s) ==
    IF s = <<>> THEN <<>>
    ELSE IF IsSep(Head(s)) THEN Tokens(Tail(s))
    ELSE <<SubSeq(s, 1, WordLen(s))>> \o Tokens(From(s, WordLen(s) + 1))

IsNumber(tok) == tok # <<>> /\ \A i \in DOMAIN tok : tok[i] \in Range(DigitChars)

DigitValue(c) == (CHOOSE i \in DOMAIN DigitChars : DigitChars[i] = c) - 1

RECURSIVE ParseNat(_)
ParseNat(tok) ==
    IF tok = <<>> THEN 0
    ELSE 10 * ParseNat(SubSeq(tok, 1, Len(tok) - 1)) + DigitValue(tok[Len(tok)])

KwLimit == <<"l","i","m","i","t">>

\* the engine runs one statement per call: text after a terminator is refused
\* ("You can only execute one statement at a time")
IsSingleStatement(sql) ==
    \A i \in DOMAIN sql :
        sql[i] = ";" => \A j \in (i + 1)..Len(sql) : IsSpace(sql[j]) \/ sql[j] = ";"

\* a statement that yields rows: SELECT ... or WITH ...
IsReadStatement(sql) ==
    LET toks == Tokens(sql)
    IN  toks # <<>> /\ Lower(toks[1]) \in {KwSelect, KwWith}

\* the positions of a LIMIT clause: the keyword followed by a number
LimitPositions(sql) ==
    LET toks == Tokens(sql)
    IN  { i \in 1..(Len(toks) - 1) : Lower(toks[i]) = KwLimit /\ IsNumber(toks[i + 1]) }

HasLimitClause(sql) == LimitPositions(sql) # {}

LimitOf(sql) ==
    LET toks == Tokens(sql)
        i    == CHOOSE k \in LimitPositions(sql) : \A m \in LimitPositions(sql) : k >= m
    IN  ParseNat(toks[i + 1])

\* conn.execute(text(sql)) then fetchall(): matched is the number of rows the
\* statement selects before any LIMIT, fails a failure of the storage layer
\* (locked file, missing table, bad identifier)
SqliteExecute(sql, matched, fails) ==
    IF fails \/ ~IsSingleStatement(sql) \/ ~IsReadStatement(sql)
    THEN [ok |-> FALSE, rows |-> <<>>]
    ELSE LET n == IF HasLimitClause(sql) THEN Min(matched, LimitOf(sql)) ELSE matched
         IN  [ok |-> TRUE, rows |-> [i \in 1..n |-> i]]

-----------------------------------------------------------------------------
(* SQLAgent.ask and its helpers, sql_agent.py:86-137, as the steps between  *)
(* two blocking calls.  A collaborator's reply is [ok, text] (ok = FALSE:   *)
(* the call raised).                                                        *)

MsgNoData    == <<"N","o"," ","d","a","t","a"," ","f","o","u","n","d",".">>
MsgError     == <<"E","r","r","o","r"," ","e","x","e","c","u","t","i","n","g"," ","q","u","e","r","y",".">>
MsgNoResults == <<"N","o"," ","r","e","s","u","l","t","s"," ","f","o","u","n","d",".">>
SrcUnknown   == <<"U","n","k","n","o","w","n">>
SrcError     == <<"E","r","r","o","r">>
DotDb        == <<".","d","b">>
LimitSuffix  == <<" ","L","I","M","I","T"," ","2","0">>
DefaultLimit == 20
SummaryRows  == 8

\* the except branch of SQLAgent.ask
AgentError == [summary |-> MsgError, raw_rows |-> <<>>, source_file |-> SrcError]

\* _generate_sql after llm.invoke returned: _clean_sql(response.content.strip())
_generate_sql(reply) == _clean_sql(Strip(reply.text))

\* the loop over self.attached_dbs: the first alias found in the query text
UsedSource(sql_query, aliases) ==
    IF \E i \in DOMAIN aliases : Contains(sql_query, aliases[i])
    THEN aliases[CHOOSE i \in DOMAIN aliases :
                    /\ Contains(sql_query, aliases[i])
                    /\ \A j \in 1..(i - 1) : ~Contains(sql_query, aliases[j])] \o DotDb
    ELSE SrcUnknown

\* if "limit" not in sql_query.lower(): sql_query += " LIMIT 20"
WithLimit(sql_query) ==
    IF ~Contains(Lower(sql_query), KwLimit) THEN sql_query \o LimitSuffix ELSE sql_query

\* _summarize_results: whether it calls the model, and the data it shows it
SummaryNeedsModel(results) == results # <<>>
DataPreview(results) == SubSeq(results, 1, Min(SummaryRows, Len(results)))

-----------------------------------------------------------------------------
(* RAGPipeline.ask, rag.py:70-118 *)

KwError  == <<"e","r","r","o","r">>
KwNoData == <<"n","o"," ","d","a","t","a">>
TopK     == 4
PreviewLen == 400

NotFoundPrefix == <<"I couldn't find relevant information in the documents">>
FallbackSql    == <<" (SQL also found no data).">>
FallbackPlain  == <<".">>
Ellipsis       == <<".", ".", ".">>
SrcUnknownDoc  == <<"u","n","k","n","o","w","n">>

\* the marker test without lower()
is_error_cased(summary) ==
    Contains(summary, KwError) \/ Contains(summary, KwNoData)

\* the success test reduced to the "error" marker alone
SqlSuccessErrorOnly(summary, raw_rows) == ~Contains(Lower(summary), KwError)

is_empty(raw_rows) == raw_rows = <<>>
is_error(summary)  ==
    Contains(Lower(summary), KwError) \/ Contains(Lower(summary), KwNoData)

SqlSuccess(summary, raw_rows) == ~is_empty(raw_rows) /\ ~is_error(summary)

SqlSources(raw_rows, source_file) ==
    << [type |-> "sql", source |-> source_file, content |-> raw_rows] >>

NotFoundMessage(used_sql) ==
    NotFoundPrefix \o (IF used_sql THEN FallbackSql ELSE FallbackPlain)

\* re.sub(r'\s+', ' ', text): every run of whitespace becomes one space
RECURSIVE CollapseSpace(_)
CollapseSpace(s) ==
    IF s = <<>> THEN <<>>
    ELSE IF IsSpace(Head(s)) THEN <<" ">> \o CollapseSpace(LStrip(s))
    ELSE <<Head(s)>> \o CollapseSpace(Tail(s))

Preview(page_content) ==
    LET t == Strip(CollapseSpace(page_content))
    IN  SubSeq(t, 1, Min(PreviewLen, Len(t))) \o Ellipsis

\* d.metadata.get("source", "unknown")
DocSource(d) == IF d.has_source THEN d.source ELSE SrcUnknownDoc

TextSources(docs) ==
    [i \in DOMAIN docs |->
        [type |-> "text", source |-> DocSource(docs[i]),
         content |-> Preview(docs[i].page_content)]]

-----------------------------------------------------------------------------
(* SQLAgent.__init__: _attach_external_databases (sql_agent.py:31-44) and   *)
(* _build_value_aware_schema_map (sql_agent.py:46-76).                      *)
(*                                                                         *)
(* A database file of docs/ is [stem, health, tables]; health is "ok",     *)
(* "unattachable" (ATTACH raises) or "unreadable" (the sqlite_master query *)
(* raises).  A table is [name, cols], a column [name, values], a value     *)
(* [null, text].                                                           *)

NoTablesFound   == <<"(No tables found)">>
EntrySeparator  == <<"\n---------------------\n">>
SqlitePrefix    == <<"s","q","l","i","t","e","_">>
ExampleLimit    == 3
ExampleWidth    == 15

\* db_file.stem.replace(" ", "_").replace("-", "_").replace(".", "_").lower()
Alias(stem) ==
    Lower([i \in DOMAIN stem |-> IF stem[i] \in {" ", "-", "."} THEN "_" ELSE stem[i]])

\* the loop of _attach_external_databases over the files, in glob order; a
\* second ATTACH under an alias in use raises and is skipped like any failure
RECURSIVE AttachAll(_, _)
AttachAll(files, attached) ==
    IF files = <<>> THEN attached
    ELSE LET f  == Head(files)
             ok == f.health # "unattachable" /\ Alias(f.stem) \notin Range(attached)
         IN  AttachAll(Tail(files), IF ok THEN Append(attached, Alias(f.stem)) ELSE attached)

_attach_external_databases(docs_exists, files) ==
    IF ~docs_exists THEN <<>> ELSE AttachAll(files, <<>>)

\* the database an alias is bound to: the first file attached under it
FileOf(alias, files) ==
    files[CHOOSE i \in DOMAIN files :
            /\ Alias(files[i].stem) = alias /\ files[i].health # "unattachable"
            /\ \A j \in 1..(i - 1) :
                  ~(Alias(files[j].stem) = alias /\ files[j].health # "unattachable")]

RECURSIVE JoinText(_, _)
JoinText(parts, sep) ==
    IF parts = <<>> THEN <<>>
    ELSE IF Len(parts) = 1 THEN parts[1]
    ELSE parts[1] \o sep \o JoinText(Tail(parts), sep)

\* BINARY collation: the characters in code-point order
AsciiOrder == <<" ">> \o DigitChars \o UpperChars \o <<"_">> \o LowerChars
CharRank(c) == CHOOSE i \in DOMAIN AsciiOrder : AsciiOrder[i] = c

\* the order of the sampled values: NULL first, then the texts, byte by byte
ValueBefore(a, b) ==
    \/ a.null /\ ~b.null
    \/ /\ ~a.null /\ ~b.null
       /\ \E i \in 1..(Min(Len(a.text), Len(b.text)) + 1) :
            /\ \A k \in 1..(i - 1) : a.text[k] = b.text[k]
            /\ \/ i > Len(a.text) /\ i <= Len(b.text)
               \/ /\ i <= Len(a.text) /\ i <= Len(b.text)
                  /\ CharRank(a.text[i]) < CharRank(b.text[i])

CountOf(values, v) == Cardinality({ i \in DOMAIN values : values[i] = v })

\* GROUP BY col ORDER BY COUNT(*) DESC: the groups by descending count, equal
\* counts in the order GROUP BY produced them (the collation order)
GroupBefore(values, a, b) ==
    \/ CountOf(values, a) > CountOf(values, b)
    \/ CountOf(values, a) = CountOf(values, b) /\ ValueBefore(a, b)

RECURSIVE SortGroups(_, _)
SortGroups(values, groups) ==
    IF groups = {} THEN <<>>
    ELSE LET m == CHOOSE a \in groups :
                     \A b \in groups \ {a} : GroupBefore(values, a, b)
         IN  <<m>> \o SortGroups(values, groups \ {m})

\* ... LIMIT 3, then [str(r[0]) for r in res if r[0] is not None]
ExampleVals(values) ==
    LET sorted == SortGroups(values, Range(values))
        res    == SubSeq(sorted, 1, Min(ExampleLimit, Len(sorted)))
        kept   == SelectSeq(res, LAMBDA g : ~g.null)
    IN  [i \in DOMAIN kept |-> kept[i].text]

\* v[:15] + "..." if len(v) > 15 else v
CleanVal(v) == IF Len(v) > ExampleWidth THEN SubSeq(v, 1, ExampleWidth) \o Ellipsis ELSE v

\* f"- {col_name}{example_vals}" for the sampled values vals
ColLine(col_name, vals) ==
    LET example_vals ==
            IF vals # <<>>
            THEN <<" (e.g. ">> \o JoinText([i \in DOMAIN vals |-> CleanVal(vals[i])], <<",", " ">>)
                 \o <<")">>
            ELSE <<>>
    IN  <<"- ">> \o col_name \o example_vals

ColDetail(col) == ColLine(col.name, ExampleVals(col.values))

TableInfo(alias, table) ==
    <<"TABLE: ", Backtick>> \o alias \o <<".">> \o table.name \o <<Backtick, "\nCOLUMNS:\n">>
    \o JoinText([i \in DOMAIN table.cols |-> ColDetail(table.cols[i])], <<"\n">>)

\* the entries one alias contributes: none when its introspection raises,
\* tables whose name starts with "sqlite_" skipped
AliasEntries(alias, files) ==
    LET f == FileOf(alias, files)
        user == SelectSeq(f.tables, LAMBDA t : ~StartsAt(t.name, 1, SqlitePrefix))
    IN  IF f.health = "unreadable" THEN <<>>
        ELSE [i \in DOMAIN user |-> TableInfo(alias, user[i])]

RECURSIVE SchemaInfo(_, _)
SchemaInfo(aliases, files) ==
    IF aliases = <<>> THEN <<>>
    ELSE AliasEntries(Head(aliases), files) \o SchemaInfo(Tail(aliases), files)

_build_value_aware_schema_map(aliases, files) ==
    IF aliases = <<>> THEN NoTablesFound
    ELSE JoinText(SchemaInfo(aliases, files), EntrySeparator)

-----------------------------------------------------------------------------
(* The inputs of a run: questions, and the replies of the collaborators.    *)

MaxMatched  == 21    \* rows a statement may select before any LIMIT
MaxDocs     == 2     \* passages the retrieval service returns (at most TopK)
NumRequests == 2     \* requests of a concurrent run

Q_ShowTop == <<"S","h","o","w"," ","m","e"," ","T","O","P"," ","3">>
Q_Stop    == <<"s","t","o","p">>
Q_Admin   == <<"A","d","m","i","n","?">>
Q_Hello   == <<"h","e","l","l","o">>
Q_Who     == <<"W","h","o"," ","r","u","n","s"," ","N","u","P","I","E">>

G_Fenced   == <<Backtick,Backtick,Backtick,"s","q","l","\n","S","E","L","E","C","T"," ","*"," ","F","R","O","M"," ","d","b",".","t","\n",Backtick,Backtick,Backtick>>
G_Limit5   == <<"s","e","l","e","c","t"," ","*"," ","f","r","o","m"," ","d","b",".","t"," ","l","i","m","i","t"," ","5",";">>
G_LimitCol == <<"S","E","L","E","C","T"," ","c","r","e","d","i","t","_","l","i","m","i","t"," ","F","R","O","M"," ","d","b",".","t">>
G_Multi    == <<"S","E","L","E","C","T"," ","1",";"," ","D","R","O","P"," ","T","A","B","L","E"," ","t">>
G_Prose    == <<"S","o","r","r","y">>

S_Rows     == <<" ","3"," ","r","o","w","s","\n">>
S_NoErrors == <<"N","o"," ","E","r","r","o","r","s">>
S_NoData   == <<"N","O"," ","D","A","T","A">>

A_Text     == <<"N","u","P","I","E">>

Failure == [ok |-> FALSE, text |-> <<>>]
Reply(t) == [ok |-> TRUE, text |-> t]

Doc(n, src, body) == [id |-> n, has_source |-> src # <<>>, source |-> src, page_content |-> body]
DocPool ==
    << Doc(1, <<"a",".","p","d","f">>, <<" ","N","u"," "," ","P","I","E","\n">>),
       Doc(2, <<>>, <<"x">>),
       Doc(3, <<"b",".","t","x","t">>, <<"y","	","z">>),
       Doc(4, <<"a",".","p","d","f">>, <<"w">>) >>

\* a run of one request draws from the full sets; a concurrent run, whose
\* states are the product of its requests', from the reduced ones
Single == Cardinality(reqs) = 1

Questions      == IF Single THEN {Q_ShowTop, Q_Stop, Q_Admin, Q_Hello, Q_Who}
                  ELSE {Q_Stop, Q_Hello}
SqlReplies     == IF Single
                  THEN {Reply(G_Fenced), Reply(G_Limit5), Reply(G_LimitCol),
                        Reply(G_Multi), Reply(G_Prose), Failure}
                  ELSE {Reply(G_Fenced), Failure}
ExecReplies    == {[fails |-> TRUE, matched |-> 0]}
                  \cup {[fails |-> FALSE, matched |-> n] :
                          n \in IF Single THEN {0, 1, DefaultLimit, MaxMatched} ELSE {0, 1}}
SummaryReplies == IF Single
                  THEN {Reply(S_Rows), Reply(S_NoErrors), Reply(S_NoData), Failure}
                  ELSE {Reply(S_Rows), Reply(S_NoData)}
SearchReplies  == {[ok |-> FALSE, docs |-> <<>>]}
                  \cup {[ok |-> TRUE, docs |-> SubSeq(DocPool, 1, n)] :
                          n \in 0..Min(IF Single THEN MaxDocs ELSE 1, TopK)}
AnswerReplies  == {Reply(A_Text), Failure}

\* the database files the agent of a request run was constructed over
T_t == [name |-> <<"t">>,
        cols |-> << [name |-> <<"c","r","e","d","i","t","_","l","i","m","i","t">>,
                     values |-> << [null |-> FALSE, text |-> <<"5">>],
                                   [null |-> TRUE,  text |-> <<>>] >>] >>]
AgentFiles == << [stem |-> <<"D","B">>, health |-> "ok", tables |-> <<T_t>>] >>

-----------------------------------------------------------------------------
(* One request: the locals of RAGPipeline.ask and of the SQLAgent.ask it    *)
(* calls, and the replies it was given (env).                               *)

NoEnv == [sql |-> Failure, exec |-> [fails |-> TRUE, matched |-> 0],
          summary |-> Failure, search |-> [ok |-> FALSE, docs |-> <<>>],
          answer |-> Failure]

NewRequest ==
    [pc |-> "idle", query |-> <<>>, used_sql |-> FALSE,
     schema_seen |-> <<>>, gen_sql |-> <<>>, sql_query |-> <<>>,
     used_source |-> <<>>, rows |-> <<>>,
     summary |-> <<>>, raw_rows |-> <<>>, source_file |-> <<>>,
     docs |-> <<>>,
     outcome |-> "none", answer |-> <<>>, sources |-> <<>>,
     env |-> NoEnv]

Called(r, name) == calls' = [calls EXCEPT ![r] = Append(@, name)]

SharedUnchanged == UNCHANGED <<attached_dbs, schema_map, databases, init_pc, reqs>>
CleanUnchanged  == UNCHANGED <<raw, clean1, clean2, clean_pc>>

\* SQLAgent.ask returns ret to line 76 of rag.py
AgentReturns(req, ret) ==
    [req EXCEPT !.pc = "sql_evaluate", !.summary = ret.summary,
                !.raw_rows = ret.raw_rows, !.source_file = ret.source_file]

\* RAGPipeline.ask returns (answer, sources)
Returns(req, answer, sources) ==
    [req EXCEPT !.pc = "done", !.outcome = "return",
                !.answer = answer, !.sources = sources]

\* rag.py:70-76: the router classifies the question and takes its first path
Ask(r) ==
    /\ init_pc = "ready" /\ rq[r].pc = "idle"
    /\ \E q \in Questions :
         IF _is_sql_query(q)
         THEN /\ rq' = [rq EXCEPT ![r].query = q, ![r].pc = "sql_generate"]
              /\ Called(r, "sql_agent.ask")
         ELSE /\ rq' = [rq EXCEPT ![r].query = q, ![r].pc = "retrieve"]
              /\ UNCHANGED calls
    /\ SharedUnchanged /\ CleanUnchanged

\* the agent keeps each generated query in self.schema_map as an example for
\* the next prompt
GenerateSqlRemembering(r) ==
    /\ rq[r].pc = "sql_generate"
    /\ \E reply \in SqlReplies :
         LET seen == [rq[r] EXCEPT !.schema_seen = schema_map, !.env.sql = reply]
             sql  == _generate_sql(reply)
         IN  /\ rq' = [rq EXCEPT ![r] =
                         IF ~reply.ok THEN AgentReturns(seen, AgentError)
                         ELSE [seen EXCEPT !.pc = "sql_execute", !.gen_sql = sql,
                                           !.sql_query = sql,
                                           !.used_source = UsedSource(sql, attached_dbs)]]
             /\ schema_map' = IF reply.ok THEN schema_map \o <<"\n">> \o sql ELSE schema_map
    /\ Called(r, "llm.invoke(sql)")
    /\ UNCHANGED <<attached_dbs, databases, init_pc, reqs>> /\ CleanUnchanged

\* sql_agent.py:113-118: the prompt is built over self.schema_map, the model is
\* called, its reply sanitized and the source attributed
GenerateSql(r) ==
    /\ rq[r].pc = "sql_generate"
    /\ \E reply \in SqlReplies :
         LET seen == [rq[r] EXCEPT !.schema_seen = schema_map, !.env.sql = reply]
             sql  == _generate_sql(reply)
         IN  rq' = [rq EXCEPT ![r] =
                      IF ~reply.ok THEN AgentReturns(seen, AgentError)
                      ELSE [seen EXCEPT !.pc = "sql_execute", !.gen_sql = sql,
                                        !.sql_query = sql,
                                        !.used_source = UsedSource(sql, attached_dbs)]]
    /\ Called(r, "llm.invoke(sql)")
    /\ SharedUnchanged /\ CleanUnchanged

\* the execution moved out of the try block: its failure leaves ask as an exception
ExecuteSqlUncaught(r) ==
    /\ rq[r].pc = "sql_execute"
    /\ \E reply \in ExecReplies :
         LET sql == WithLimit(rq[r].sql_query)
             res == SqliteExecute(sql, reply.matched, reply.fails)
             ran == [rq[r] EXCEPT !.sql_query = sql, !.env.exec = reply]
         IN  rq' = [rq EXCEPT ![r] =
                      IF ~res.ok THEN [ran EXCEPT !.pc = "done", !.outcome = "raise"]
                      ELSE IF res.rows = <<>>
                      THEN AgentReturns(ran, [summary |-> MsgNoData, raw_rows |-> <<>>,
                                              source_file |-> ran.used_source])
                      ELSE [ran EXCEPT !.pc = "sql_summarize", !.rows = res.rows]]
    /\ Called(r, "conn.execute")
    /\ SharedUnchanged /\ CleanUnchanged

\* the execution without the empty-result return of line 127: an empty row
\* list goes on to _summarize_results
ExecuteSqlNoEmptyReturn(r) ==
    /\ rq[r].pc = "sql_execute"
    /\ \E reply \in ExecReplies :
         LET sql == WithLimit(rq[r].sql_query)
             res == SqliteExecute(sql, reply.matched, reply.fails)
             ran == [rq[r] EXCEPT !.sql_query = sql, !.env.exec = reply]
         IN  rq' = [rq EXCEPT ![r] =
                      IF ~res.ok THEN AgentReturns(ran, AgentError)
                      ELSE [ran EXCEPT !.pc = "sql_summarize", !.rows = res.rows]]
    /\ Called(r, "conn.execute")
    /\ SharedUnchanged /\ CleanUnchanged

\* sql_agent.py:120-127: the row limit is appended and the statement executed
ExecuteSql(r) ==
    /\ rq[r].pc = "sql_execute"
    /\ \E reply \in ExecReplies :
         LET sql == WithLimit(rq[r].sql_query)
             res == SqliteExecute(sql, reply.matched, reply.fails)
             ran == [rq[r] EXCEPT !.sql_query = sql, !.env.exec = reply]
         IN  rq' = [rq EXCEPT ![r] =
                      IF ~res.ok THEN AgentReturns(ran, AgentError)
                      ELSE IF res.rows = <<>>
                      THEN AgentReturns(ran, [summary |-> MsgNoData, raw_rows |-> <<>>,
                                              source_file |-> ran.used_source])
                      ELSE [ran EXCEPT !.pc = "sql_summarize", !.rows = res.rows]]
    /\ Called(r, "conn.execute")
    /\ SharedUnchanged /\ CleanUnchanged

\* sql_agent.py:129-133 and _summarize_results (101-109)
SummarizeResults(r) ==
    /\ rq[r].pc = "sql_summarize"
    /\ IF SummaryNeedsModel(rq[r].rows)
       THEN \E reply \in SummaryReplies :
              /\ rq' = [rq EXCEPT ![r] =
                          LET got == [rq[r] EXCEPT !.env.summary = reply]
                          IN  IF ~reply.ok THEN AgentReturns(got, AgentError)
                              ELSE AgentReturns(got, [summary |-> Strip(reply.text),
                                                      raw_rows |-> got.rows,
                                                      source_file |-> got.used_source])]
              /\ Called(r, "llm.invoke(summary)")
       ELSE /\ rq' = [rq EXCEPT ![r] =
                        AgentReturns(rq[r], [summary |-> MsgNoResults,
                                             raw_rows |-> rq[r].rows,
                                             source_file |-> rq[r].used_source])]
            /\ UNCHANGED calls
    /\ SharedUnchanged /\ CleanUnchanged

\* rag.py:78-87: the router evaluates what the agent returned
EvaluateSql(r) ==
    /\ rq[r].pc = "sql_evaluate"
    /\ rq' = [rq EXCEPT ![r] =
                IF SqlSuccess(rq[r].summary, rq[r].raw_rows)
                THEN Returns(rq[r], rq[r].summary,
                             SqlSources(rq[r].raw_rows, rq[r].source_file))
                ELSE [rq[r] EXCEPT !.pc = "retrieve", !.used_sql = TRUE]]
    /\ UNCHANGED calls
    /\ SharedUnchanged /\ CleanUnchanged

\* the retrieval call without its try block: a failure of the service leaves
\* ask as an exception
SimilaritySearchUncaught(r) ==
    /\ rq[r].pc = "retrieve"
    /\ \E reply \in SearchReplies :
         LET got == [rq[r] EXCEPT !.docs = reply.docs, !.env.search = reply]
         IN  rq' = [rq EXCEPT ![r] =
                      IF ~reply.ok THEN [got EXCEPT !.pc = "done", !.outcome = "raise"]
                      ELSE IF reply.docs = <<>>
                      THEN Returns(got, NotFoundMessage(got.used_sql), <<>>)
                      ELSE [got EXCEPT !.pc = "answer"]]
    /\ Called(r, "similarity_search")
    /\ SharedUnchanged /\ CleanUnchanged

\* rag.py:91-98: the retrieval call; a failure of the service is zero passages
SimilaritySearch(r) ==
    /\ rq[r].pc = "retrieve"
    /\ \E reply \in SearchReplies :
         LET docs == IF reply.ok THEN reply.docs ELSE <<>>
             got  == [rq[r] EXCEPT !.docs = docs, !.env.search = reply]
         IN  rq' = [rq EXCEPT ![r] =
                      IF docs = <<>>
                      THEN Returns(got, NotFoundMessage(got.used_sql), <<>>)
                      ELSE [got EXCEPT !.pc = "answer"]]
    /\ Called(r, "similarity_search")
    /\ SharedUnchanged /\ CleanUnchanged

\* rag.py:100-118: the answer is generated from the passages; the call stands
\* outside every try block, so a failure of the model leaves ask as an exception
GenerateAnswer(r) ==
    /\ rq[r].pc = "answer"
    /\ \E reply \in AnswerReplies :
         LET got == [rq[r] EXCEPT !.env.answer = reply]
         IN  rq' = [rq EXCEPT ![r] =
                      IF reply.ok
                      THEN Returns(got, reply.text, TextSources(got.docs))
                      ELSE [got EXCEPT !.pc = "done", !.outcome = "raise"]]
    /\ Called(r, "llm.invoke(answer)")
    /\ SharedUnchanged /\ CleanUnchanged

-----------------------------------------------------------------------------
(* Specifications of the request runs *)

CleanIdle == raw = <<>> /\ clean1 = <<>> /\ clean2 = <<>> /\ clean_pc = "off"

\* the state after RAGPipeline.__init__: the agent is constructed
Constructed(ids) ==
    /\ databases = [docs_exists |-> TRUE, files |-> AgentFiles]
    /\ attached_dbs = _attach_external_databases(TRUE, AgentFiles)
    /\ schema_map = _build_value_aware_schema_map(attached_dbs, AgentFiles)
    /\ init_pc = "ready"
    /\ reqs = ids
    /\ rq = [r \in ids |-> NewRequest]
    /\ calls = [r \in ids |-> <<>>]
    /\ CleanIdle

Init == Constructed({1})

Next ==
    \/ \E r \in reqs : Ask(r)
    \/ \E r \in reqs : GenerateSql(r)
    \/ \E r \in reqs : ExecuteSql(r)
    \/ \E r \in reqs : SummarizeResults(r)
    \/ \E r \in reqs : EvaluateSql(r)
    \/ \E r \in reqs : SimilaritySearch(r)
    \/ \E r \in reqs : GenerateAnswer(r)

Spec == Init /\ [][Next]_vars

InitConc == Constructed(1..NumRequests)

SpecConc == InitConc /\ [][Next]_vars

-----------------------------------------------------------------------------
(* The sanitizer on its own: a raw model output is sanitized as             *)
(* _generate_sql does, and the result sanitized once more.                  *)

MaxParts == 3    \* pieces a raw model output is composed of

Pieces ==
    { FenceSql, Fence, <<Backtick>>, <<";">>, <<" ">>, <<"\n">>,
      <<"S","E","L","E","C","T"," ","1">>, <<"w","i","t","h">>, <<"x">>, <<"S","q","l",":">> }

RECURSIVE Flatten(_)
Flatten(parts) == IF parts = <<>> THEN <<>> ELSE Head(parts) \o Flatten(Tail(parts))

RawOutputs ==
    { Flatten(parts) : parts \in UNION { [1..n -> Pieces] : n \in 0..MaxParts } }

RequestsIdle ==
    /\ reqs = {} /\ rq = <<>> /\ calls = <<>>

InitClean ==
    /\ raw \in RawOutputs
    /\ clean1 = <<>> /\ clean2 = <<>> /\ clean_pc = "raw"
    /\ databases = [docs_exists |-> FALSE, files |-> <<>>]
    /\ attached_dbs = <<>> /\ schema_map = <<>> /\ init_pc = "off"
    /\ RequestsIdle

\* sql_agent.py:99: return self._clean_sql(response.content.strip())
Sanitize ==
    /\ clean_pc = "raw"
    /\ clean1' = _generate_sql(Reply(raw))
    /\ clean_pc' = "once"
    /\ UNCHANGED <<raw, clean2, attached_dbs, schema_map, databases, init_pc, reqs, rq, calls>>

\* _clean_sql applied to its own output
Resanitize ==
    /\ clean_pc = "once"
    /\ clean2' = _clean_sql(clean1)
    /\ clean_pc' = "twice"
    /\ UNCHANGED <<raw, clean1, attached_dbs, schema_map, databases, init_pc, reqs, rq, calls>>

NextClean == Sanitize \/ Resanitize

SpecClean == InitClean /\ [][NextClean]_vars

-----------------------------------------------------------------------------
(* The construction of the agent over the database files found in docs/.    *)

MaxDbFiles == 2  \* database files in docs/

Val(t) == [null |-> FALSE, text |-> t]
Null   == [null |-> TRUE, text |-> <<>>]

T_sys == [name |-> <<"s","q","l","i","t","e","_","s","e","q","u","e","n","c","e">>,
          cols |-> << [name |-> <<"s","e","q">>, values |-> <<Val(<<"1">>)>>] >>]
T_u   == [name |-> <<"u">>,
          cols |-> << [name |-> <<"d","e","p","a","r","t","m","e","n","t">>,
                       values |-> << Val(<<"C","S">>), Val(<<"B","D","S">>), Val(<<"B","D","S">>),
                                     Null, Null, Null >>],
                      [name |-> <<"n","o","t","e">>,
                       values |-> << Val(<<"0","1","2","3","4","5","6","7","8","9","a","b","c","d","e","f">>), Null >>] >>]
\* a column with three distinct non-null values, NULL being its most frequent
T_g   == [name |-> <<"g">>,
          cols |-> << [name |-> <<"g","r","a","d","e">>,
                       values |-> << Null, Null, Null, Null,
                                     Val(<<"A">>), Val(<<"A">>), Val(<<"A">>),
                                     Val(<<"B">>), Val(<<"B">>), Val(<<"C">>) >>] >>]

DbFiles ==
    { [stem |-> st, health |-> h, tables |-> ts] :
        st \in {<<"D","B">>, <<"m","y","-","d","b">>},
        h  \in {"ok", "unattachable", "unreadable"},
        ts \in {<<>>, <<T_t>>, <<T_sys>>, <<T_sys, T_u, T_g>>} }

DocsDirs ==
    {[docs_exists |-> FALSE, files |-> <<>>]}
    \cup { [docs_exists |-> TRUE, files |-> fs] :
             fs \in UNION { [1..n -> DbFiles] : n \in 0..MaxDbFiles } }

InitSchema ==
    /\ databases \in DocsDirs
    /\ attached_dbs = <<>> /\ schema_map = <<>> /\ init_pc = "attach"
    /\ RequestsIdle /\ CleanIdle

\* sql_agent.py:19: self._attach_external_databases()
AttachDatabases ==
    /\ init_pc = "attach"
    /\ attached_dbs' = _attach_external_databases(databases.docs_exists, databases.files)
    /\ init_pc' = "build"
    /\ UNCHANGED <<schema_map, databases, reqs, rq, calls>> /\ CleanUnchanged

\* sql_agent.py:29: self.schema_map = self._build_value_aware_schema_map()
BuildSchemaMap ==
    /\ init_pc = "build"
    /\ schema_map' = _build_value_aware_schema_map(attached_dbs, databases.files)
    /\ init_pc' = "ready"
    /\ UNCHANGED <<attached_dbs, databases, reqs, rq, calls>> /\ CleanUnchanged

NextSchema == AttachDatabases \/ BuildSchemaMap

SpecSchema == InitSchema /\ [][NextSchema]_vars

-----------------------------------------------------------------------------
(* Properties of the router, checked under Spec *)

CallsOf(r)      == Range(calls[r])
SqlAttempted(r) == "sql_agent.ask" \in CallsOf(r)
Retrieved(r)    == "similarity_search" \in CallsOf(r)
AgentReturned(r) == SqlAttempted(r) /\ rq[r].pc \in {"sql_evaluate", "retrieve", "answer", "done"}
Evaluated(r)    == SqlAttempted(r) /\ rq[r].pc \in {"retrieve", "answer", "done"}

\* the question holds a keyword of the vocabulary, in any letter case
HasVocabularyKeyword(q) ==
    \E i \in DOMAIN keywords : \E k \in 1..Len(q) : StartsAt(Lower(q), k, keywords[i])

\* the request ended by returning the SQL outcome
SqlTerminal(r) ==
    /\ rq[r].pc = "done" /\ rq[r].outcome = "return"
    /\ Len(rq[r].sources) = 1 /\ rq[r].sources[1].type = "sql"

\* C1: for every question that holds a keyword of the structured-query
\* vocabulary (case-insensitively, as a substring), the first collaborator the
\* router invokes is the SQL agent, and every retrieval call of the request
\* comes after that invocation.
C1_SqlBeforeRetrieval ==
    \A r \in reqs :
        (rq[r].pc # "idle" /\ HasVocabularyKeyword(rq[r].query)) =>
            /\ calls[r] # <<>> /\ calls[r][1] = "sql_agent.ask"
            /\ \A j \in DOMAIN calls[r] :
                 calls[r][j] = "similarity_search" =>
                    \E i \in 1..(j - 1) : calls[r][i] = "sql_agent.ask"

\* a keyword question written in capitals fell back to retrieval after SQL
C1_Witness ==
    \E r \in reqs : rq[r].query = Q_ShowTop /\ SqlAttempted(r) /\ Retrieved(r)

\* the retrieval call of the request produced no passage
ZeroPassages(r) ==
    /\ Retrieved(r) /\ rq[r].pc \in {"answer", "done"}
    /\ (~rq[r].env.search.ok \/ rq[r].env.search.docs = <<>>)

\* C2: once the router has evaluated an SQL outcome with an empty row set, the
\* request is on the retrieval path (the retrieval call is the next step or has
\* been made) and never ends by returning the SQL outcome; and a request whose
\* retrieval yields zero passages ends with the fixed not-found message and an
\* empty source list.
C2_EmptySqlFallsBack ==
    \A r \in reqs :
        /\ (Evaluated(r) /\ rq[r].raw_rows = <<>>) =>
              /\ rq[r].pc = "retrieve" \/ Retrieved(r)
              /\ ~SqlTerminal(r)
        /\ ZeroPassages(r) =>
              /\ rq[r].pc = "done" /\ rq[r].outcome = "return"
              /\ SubSeq(rq[r].answer, 1, 1) = NotFoundPrefix
              /\ rq[r].answer \in {NotFoundPrefix \o FallbackSql, NotFoundPrefix \o FallbackPlain}
              /\ rq[r].sources = <<>>

\* the statement ran and selected nothing, and retrieval found nothing either
C2_Witness ==
    \E r \in reqs :
        /\ rq[r].pc = "done" /\ "conn.execute" \in CallsOf(r)
        /\ rq[r].summary = MsgNoData /\ rq[r].raw_rows = <<>>
        /\ ZeroPassages(r) /\ rq[r].env.search.ok

\* the summary text carries a failure marker, in any letter case
Flagged(summary) ==
    \E k \in 1..Len(summary) :
        StartsAt(Lower(summary), k, KwError) \/ StartsAt(Lower(summary), k, KwNoData)

\* C3: a request whose SQL outcome has been evaluated ended in the SQL-success
\* terminal state (the summary and exactly one source record of type "sql",
\* no retrieval call) if and only if the agent returned a non-empty row set and
\* a summary holding neither "error" nor "no data" in any letter case;
\* otherwise it went on to the retrieval path.
C3_SqlSuccessIff ==
    \A r \in reqs :
        Evaluated(r) =>
            LET good == rq[r].raw_rows # <<>> /\ ~Flagged(rq[r].summary)
            IN  /\ good <=> SqlTerminal(r)
                /\ good => /\ rq[r].answer = rq[r].summary
                           /\ rq[r].sources[1].content = rq[r].raw_rows
                           /\ rq[r].sources[1].source = rq[r].source_file
                           /\ ~Retrieved(r)
                /\ ~good => /\ rq[r].used_sql
                            /\ rq[r].pc = "retrieve" \/ Retrieved(r)

\* rows came back with a clean summary and were returned as the answer
C3_Witness ==
    \E r \in reqs :
        /\ SqlTerminal(r) /\ Len(rq[r].raw_rows) = DefaultLimit
        /\ rq[r].answer = Strip(S_Rows)

\* C4: no failure of a collaborator leaves RAGPipeline.ask as an exception:
\* every request that has ended has returned an (answer, sources) pair.
C4_NoExceptionEscapes ==
    \A r \in reqs : rq[r].pc = "done" => rq[r].outcome = "return"

\* an error was raised on the SQL path of the request: by the model writing
\* the query, by the execution of the statement, or by the model summarizing
SqlPathError(r) ==
    \/ "llm.invoke(sql)" \in CallsOf(r) /\ ~rq[r].env.sql.ok
    \/ /\ "conn.execute" \in CallsOf(r)
       /\ \/ rq[r].env.exec.fails
          \/ ~IsSingleStatement(rq[r].sql_query)
          \/ ~IsReadStatement(rq[r].sql_query)
    \/ "llm.invoke(summary)" \in CallsOf(r) /\ ~rq[r].env.summary.ok

\* C5: after an error on the SQL path the agent has returned the error state
\* ("Error executing query.", no rows, source "Error") and raised nothing, and
\* the router, once it has evaluated that state, is on the retrieval path and
\* does not return it.
C5_SqlErrorsCaught ==
    \A r \in reqs :
        SqlPathError(r) =>
            /\ AgentReturned(r)
            /\ rq[r].summary = MsgError /\ rq[r].raw_rows = <<>>
            /\ rq[r].source_file = SrcError
            /\ Evaluated(r) =>
                 /\ rq[r].used_sql
                 /\ rq[r].pc = "retrieve" \/ Retrieved(r)
                 /\ ~SqlTerminal(r)

\* the storage layer failed and the request went on to find passages
C5_Witness ==
    \E r \in reqs :
        /\ rq[r].env.exec.fails /\ "conn.execute" \in CallsOf(r)
        /\ Retrieved(r) /\ rq[r].docs # <<>>

\* C6: a generated query without a LIMIT clause yields at most 20 rows from
\* SQLAgent.ask, whatever the number of rows it selects.
C6_AtMostTwentyRows ==
    \A r \in reqs :
        ("conn.execute" \in CallsOf(r) /\ ~HasLimitClause(rq[r].gen_sql)) =>
            Len(rq[r].rows) <= DefaultLimit

-----------------------------------------------------------------------------
(* Properties of the sanitizer, checked under SpecClean *)

\* C7: the sanitizer is idempotent: sanitizing its own output returns it
\* unchanged.
C7_SanitizerIdempotent == clean_pc = "twice" => clean2 = clean1

\* C8: the sanitized text is in single-statement form: no statement terminator
\* is followed by further statement text.
C8_SingleStatementForm ==
    clean_pc \in {"once", "twice"} =>
        \A i \in DOMAIN clean1 :
            clean1[i] = ";" =>
                \A j \in (i + 1)..Len(clean1) : IsSpace(clean1[j]) \/ clean1[j] = ";"

-----------------------------------------------------------------------------
(* Properties of the schema introspector, checked under SpecSchema *)

\* no attached database holds a user table the introspector can list
NoUserTable ==
    \A i \in DOMAIN attached_dbs :
        LET f == FileOf(attached_dbs[i], databases.files)
        IN  \/ f.health = "unreadable"
            \/ \A k \in DOMAIN f.tables : StartsAt(f.tables[k].name, 1, SqlitePrefix)

\* C9: when no user table exists in any attached database, the schema map is
\* the empty-state sentinel and never the empty string.
C9_EmptyStateSentinel ==
    (init_pc = "ready" /\ NoUserTable) =>
        schema_map = NoTablesFound /\ schema_map # <<>>

-----------------------------------------------------------------------------
(* RAGPipeline.ask run alone from start to end on the replies env: the      *)
(* reference a concurrent run is compared with.                             *)

AgentAsk(env, aliases) ==
    LET gen == _generate_sql(env.sql)
        src == UsedSource(gen, aliases)
        res == SqliteExecute(WithLimit(gen), env.exec.matched, env.exec.fails)
    IN  IF ~env.sql.ok
        THEN [ret |-> AgentError, calls |-> <<"llm.invoke(sql)">>]
        ELSE IF ~res.ok
        THEN [ret |-> AgentError, calls |-> <<"llm.invoke(sql)", "conn.execute">>]
        ELSE IF res.rows = <<>>
        THEN [ret |-> [summary |-> MsgNoData, raw_rows |-> <<>>, source_file |-> src],
              calls |-> <<"llm.invoke(sql)", "conn.execute">>]
        ELSE IF ~env.summary.ok
        THEN [ret |-> AgentError,
              calls |-> <<"llm.invoke(sql)", "conn.execute", "llm.invoke(summary)">>]
        ELSE [ret |-> [summary |-> Strip(env.summary.text), raw_rows |-> res.rows,
                       source_file |-> src],
              calls |-> <<"llm.invoke(sql)", "conn.execute", "llm.invoke(summary)">>]

RetrievalAsk(env, used_sql, made) ==
    LET docs == IF env.search.ok THEN env.search.docs ELSE <<>>
    IN  IF docs = <<>>
        THEN [outcome |-> "return", answer |-> NotFoundMessage(used_sql), sources |-> <<>>,
              calls |-> made \o <<"similarity_search">>, used_sql |-> used_sql]
        ELSE IF env.answer.ok
        THEN [outcome |-> "return", answer |-> env.answer.text, sources |-> TextSources(docs),
              calls |-> made \o <<"similarity_search", "llm.invoke(answer)">>,
              used_sql |-> used_sql]
        ELSE [outcome |-> "raise", answer |-> <<>>, sources |-> <<>>,
              calls |-> made \o <<"similarity_search", "llm.invoke(answer)">>,
              used_sql |-> used_sql]

SequentialAsk(query, env, aliases) ==
    IF _is_sql_query(query)
    THEN LET a == AgentAsk(env, aliases)
         IN  IF SqlSuccess(a.ret.summary, a.ret.raw_rows)
             THEN [outcome |-> "return", answer |-> a.ret.summary,
                   sources |-> SqlSources(a.ret.raw_rows, a.ret.source_file),
                   calls |-> <<"sql_agent.ask">> \o a.calls, used_sql |-> FALSE]
             ELSE RetrievalAsk(env, TRUE, <<"sql_agent.ask">> \o a.calls)
    ELSE RetrievalAsk(env, FALSE, <<>>)

\* what the constructor left: the aliases and the schema map of a request run
BuiltAliases == _attach_external_databases(TRUE, AgentFiles)
BuiltSchema  == _build_value_aware_schema_map(BuiltAliases, AgentFiles)

\* a request of the run agrees with the run of the same request alone
AsSequential(r) ==
    LET s == SequentialAsk(rq[r].query, rq[r].env, BuiltAliases)
    IN  /\ "llm.invoke(sql)" \in CallsOf(r) => rq[r].schema_seen = BuiltSchema
        /\ rq[r].pc = "done" =>
              /\ rq[r].outcome = s.outcome
              /\ calls[r] = s.calls
              /\ rq[r].used_sql = s.used_sql
              /\ rq[r].outcome = "return" =>
                    rq[r].answer = s.answer /\ rq[r].sources = s.sources

-----------------------------------------------------------------------------
(* Properties of the failure and empty-result paths, checked under Spec *)

\* the retrieval service raised on the request's similarity_search call
RetrievalFailed(r) == Retrieved(r) /\ ~rq[r].env.search.ok

\* C11: once the similarity_search call of a request has failed, the request
\* has returned (raised nothing) the fixed not-found message with an empty
\* source list, without any answer-generation call to the model, and the
\* message ends with " (SQL also found no data)." exactly when the SQL path was
\* attempted in the request, and with "." otherwise.
C11_RetrievalFailureIsNotFound ==
    \A r \in reqs :
        RetrievalFailed(r) =>
            /\ rq[r].pc = "done" /\ rq[r].outcome = "return"
            /\ rq[r].docs = <<>> /\ rq[r].sources = <<>>
            /\ "llm.invoke(answer)" \notin CallsOf(r)
            /\ rq[r].answer = NotFoundPrefix \o
                   (IF SqlAttempted(r) THEN FallbackSql ELSE FallbackPlain)

\* the retrieval service failed in a request whose SQL attempt had run a
\* statement, and the not-found message carries the annotation
C11_Witness ==
    \E r \in reqs :
        /\ RetrievalFailed(r) /\ "conn.execute" \in CallsOf(r)
        /\ rq[r].answer = NotFoundPrefix \o FallbackSql

\* the statement of the request ran without error and selected no row
EmptyResultSet(r) ==
    /\ "conn.execute" \in CallsOf(r)
    /\ ~rq[r].env.exec.fails
    /\ IsSingleStatement(rq[r].sql_query) /\ IsReadStatement(rq[r].sql_query)
    /\ rq[r].rows = <<>>

\* the calls SQLAgent.ask made to the language model in the request
AgentModelCalls(r) ==
    SelectSeq(calls[r], LAMBDA c : c \in {"llm.invoke(sql)", "llm.invoke(summary)"})

\* C12: once the statement of a request has run and selected no row, the agent
\* has returned "No data found." with no rows and the attributed source, and
\* the only call it made to the language model is the one SQL-synthesis call:
\* no summarization call was made.
C12_EmptyResultNoSummaryCall ==
    \A r \in reqs :
        EmptyResultSet(r) =>
            /\ AgentReturned(r)
            /\ rq[r].summary = MsgNoData /\ rq[r].raw_rows = <<>>
            /\ rq[r].source_file = rq[r].used_source
            /\ AgentModelCalls(r) = <<"llm.invoke(sql)">>

\* a well-formed statement matched no row and the request has ended
C12_Witness ==
    \E r \in reqs :
        /\ EmptyResultSet(r) /\ rq[r].env.exec.matched = 0
        /\ rq[r].pc = "done" /\ rq[r].summary = MsgNoData

-----------------------------------------------------------------------------
(* The example values of the schema map, checked under SpecSchema *)

\* the distinct non-null values of a column
NonNullValues(values) == { v \in Range(values) : ~v.null }

\* the lists of up to 3 distinct non-null values of a column
ExampleLists(values) ==
    UNION { { e \in [1..n -> NonNullValues(values)] :
                \A i, j \in 1..n : i # j => e[i] # e[j] } : n \in 0..ExampleLimit }

\* e lists the most frequent non-null values of the column, by descending
\* frequency, 3 of them when the column has that many and all of them otherwise
MostFrequentNonNull(values, e) ==
    /\ Len(e) = Min(ExampleLimit, Cardinality(NonNullValues(values)))
    /\ \A i, j \in DOMAIN e : i < j => CountOf(values, e[i]) >= CountOf(values, e[j])
    /\ \A v \in NonNullValues(values) \ Range(e) :
          \A i \in DOMAIN e : CountOf(values, e[i]) >= CountOf(values, v)

\* the text holds the line: it starts there and is followed by a line break,
\* by the separator of two entries, or by the end of the text
HasLine(t, line) ==
    \E k \in 1..Len(t) :
        /\ StartsAt(t, k, line)
        /\ \/ k + Len(line) > Len(t)
           \/ t[k + Len(line)] \in {"\n", EntrySeparator[1]}

\* C13: in the schema map built at construction, the line of every column of
\* every introspected table (a user table of a readable attached database)
\* shows that column's most frequent non-null distinct values in descending
\* frequency order, exactly 3 of them when the column has at least 3 distinct
\* non-null values, whether or not NULL is among its most frequent values.
C13_ExamplesMostFrequentNonNull ==
    init_pc = "ready" =>
        \A a \in DOMAIN attached_dbs :
            LET f == FileOf(attached_dbs[a], databases.files)
            IN  f.health # "unreadable" =>
                  \A k \in DOMAIN f.tables :
                      ~StartsAt(f.tables[k].name, 1, SqlitePrefix) =>
                          \A c \in DOMAIN f.tables[k].cols :
                              LET col == f.tables[k].cols[c]
                              IN  \E e \in ExampleLists(col.values) :
                                      /\ MostFrequentNonNull(col.values, e)
                                      /\ HasLine(schema_map,
                                                 ColLine(col.name, [i \in DOMAIN e |-> e[i].text]))

====
